---------------------------- MODULE Spec2Model ----------------------------
(***************************************************************************)
(* Model of the CSV -> SQL load pipeline of truong-29/Upload-CSV.         *)
(*                                                                         *)
(* Spec models one run of data_loader.load_csv_to_sql: the DataLoader     *)
(* object, its UploadStats and DeadLetterQueue (error_handler.py), the    *)
(* target table and the stream of batches read from the file.             *)
(*                                                                         *)
(* A file is a sequence of rows; each row carries only what the loader     *)
(* can observe of it: whether the database accepts it.  Row i of the file *)
(* has the pandas index i-1.                                               *)
(***************************************************************************)
EXTENDS Integers, Sequences, FiniteSets, TLC

\* Largest number of data rows of a file.
MaxRows == 3
\* Largest configured chunksize.
MaxChunk == 2
\* Largest number of columns of a sample frame.
MaxCols == 2
\* Largest number of requested index columns.
MaxIndexes == 1
\* Largest number of characters of a table or column name.
MaxNameLen == 3
\* Largest number of distinct values of a sample column.
MaxClasses == 2
\* Largest number of characters of the sample read for the delimiter.
MaxSample == 5

VARIABLES
    an,                 \* a CSVAnalyzer, its file and the outcome of its last call
    cx,                 \* a load through DatabaseConnector / main.load_csv_to_db
    sg,                 \* a SchemaGenerator and the arguments of its calls
    error_stats,        \* the mapping get_error_stats returned to the caller
    steps,              \* history: analyze_csv / infer_schema / create_table calls
    args,               \* arguments of load_csv_to_sql / load_data
    file,               \* the CSV file: file[i] = TRUE iff the database accepts row i
    columns,            \* df.columns of every DataFrame read from the file
    fileBig,            \* os.path.getsize(file) >= 100 MB
    db0,                \* history: the target table before the run
    db,                 \* the target table: [exists, rows]
    pc,                 \* position of the run
    csv_analysis,       \* DataLoader.csv_analysis is set
    column_types,       \* DataLoader.column_types is set
    upload_stats,       \* DataLoader.upload_stats
    dead_letter_queue,  \* DataLoader.dead_letter_queue and the files of its error_dir
    chunk_method,       \* load_data's local chunk_method
    chunk_i,            \* number of chunks read so far
    batch,              \* the DataFrame in hand: the pandas indexes of its rows
    row_i,              \* _execute_manual_insert: rows of batch attempted so far
    success_count,      \* _execute_manual_insert: success_count
    conn,               \* the open connection: rows inserted and not yet committed
    success,            \* load_data's local success
    ret,                \* what load_data returned ("None" while it has not)
    result,             \* result['status'] of load_csv_to_sql ("None" until built)
    trace               \* history: the database and file events of the run, in order

vars == <<an, cx, sg, error_stats, steps, args, file, columns, fileBig, db0, db, pc, csv_analysis, column_types, upload_stats,
          dead_letter_queue, chunk_method, chunk_i, batch, row_i, success_count,
          conn, success, ret, result, trace>>

----------------------------------------------------------------------------
(* Helpers *)

Range(s) == {s[i] : i \in 1..Len(s)}

Min(a, b) == IF a <= b THEN a ELSE b

RECURSIVE SeqsUpTo(_, _)
SeqsUpTo(S, n) ==
    IF n = 0 THEN {<<>>}
    ELSE LET shorter == SeqsUpTo(S, n - 1)
         IN  shorter \cup {Append(s, x) : s \in {t \in shorter : Len(t) = n - 1}, x \in S}

\* The pandas indexes lo..hi as a sequence.
Indexes(lo, hi) == [i \in 1..(hi - lo + 1) |-> lo + i - 1]

\* The header lines a file may have: plain names, or a column that bears the
\* name of one of the dead-letter file's error fields.
Headers == {<<"id", "name">>, <<"id", "error_type">>}

\* The database accepts the row with pandas index idx.
Accepts(idx) == file[idx + 1]

----------------------------------------------------------------------------
(* error_handler.UploadStats *)

UploadStatsInit ==
    [total_rows |-> 0, successful_rows |-> 0, failed_rows |-> 0,
     errors |-> <<>>, end_time |-> "None"]

\* A variant that leaves total_rows as it is.
record_success_uncounted(s, num_rows) ==
    [s EXCEPT !.successful_rows = @ + num_rows]

record_success(s, num_rows) ==
    [s EXCEPT !.successful_rows = @ + num_rows,
              !.total_rows = @ + num_rows]

\* A variant that counts one failed row whatever num_rows is.
record_failure_one_row(s, num_rows, error) ==
    [s EXCEPT !.failed_rows = @ + 1,
              !.total_rows = @ + 1,
              !.errors = IF error # "None" THEN Append(@, error) ELSE @]

\* error: "None" or the class name / error_type of the exception
record_failure(s, num_rows, error) ==
    [s EXCEPT !.failed_rows = @ + num_rows,
              !.total_rows = @ + num_rows,
              !.errors = IF error # "None" THEN Append(@, error) ELSE @]

complete(s) == [s EXCEPT !.end_time = "set"]

\* get_summary stamps end_time when it is still None, then reads the counters.
get_summary(s) == IF s.end_time = "None" THEN complete(s) ELSE s


----------------------------------------------------------------------------
(* error_handler.DeadLetterQueue.                                          *)
(* A queue is [current_file, error_counts, files]: files is the content of *)
(* error_dir, one sequence of lines per file created; current_file is the  *)
(* position of the run's file in it, 0 for None.  A line records the field *)
(* names in the order csv.DictWriter wrote their cells.                    *)

ErrorColumns == <<"error_type", "error_message", "error_timestamp">>

DeadLetterQueueInit ==
    [current_file |-> 0, error_counts |-> <<>>, files |-> <<>>]

\* open(current_file, 'w'), DictWriter(fieldnames = extended_columns).writeheader()
HeaderLine(column_names) ==
    [kind |-> "header", fields |-> column_names \o ErrorColumns,
     row |-> -1, error_type |-> "None"]

_init_error_file(q, column_names) ==
    [q EXCEPT !.files = Append(@, <<HeaderLine(column_names)>>),
              !.current_file = Len(q.files) + 1]

\* d[k] = v on a dict with the keys `keys`: a new key goes last, an old one stays.
SetKey(keys, k) == IF k \in Range(keys) THEN keys ELSE Append(keys, k)

\* The keys of error_row: those of row_data, then the three error fields.
ErrorRowKeys(row_keys) ==
    SetKey(SetKey(SetKey(row_keys, "error_type"), "error_message"), "error_timestamp")

\* DictWriter(fieldnames = list(error_row.keys())).writerow(error_row)
DataLine(row_keys, idx, error_type) ==
    [kind |-> "row", fields |-> ErrorRowKeys(row_keys),
     row |-> idx, error_type |-> error_type]

\* A variant that counts a label once however often it occurs.
CountErrorOnce(counts, error_type) == (error_type :> 1) @@ counts

\* self.error_counts[error_type] = self.error_counts.get(error_type, 0) + 1
CountError(counts, error_type) ==
    IF error_type \in DOMAIN counts
    THEN [counts EXCEPT ![error_type] = @ + 1]
    ELSE counts @@ (error_type :> 1)

\* A variant that starts a new file at every call.
EnsureErrorFileAlways(q, column_names) == _init_error_file(q, column_names)

\* The file is created only while current_file is None.
EnsureErrorFile(q, column_names) ==
    IF q.current_file = 0 THEN _init_error_file(q, column_names) ELSE q

\* row_keys: the keys of row_data in dict order; idx: the row; error_type: the
\* error's error_type (a CSVUploadError) or class name.
add_row(q, row_keys, idx, error_type, column_names) ==
    LET q1 == EnsureErrorFile(q, column_names)
    IN  [q1 EXCEPT !.files[q1.current_file] =
                        Append(@, DataLine(row_keys, idx, error_type)),
                   !.error_counts = CountError(@, error_type)]

\* for _, row in df.iterrows(): add_row(csv_filename, row.to_dict(), error, column_names)
RECURSIVE AddRows(_, _, _, _)
AddRows(q, df, error_type, column_names) ==
    IF df = <<>> THEN q
    ELSE AddRows(add_row(q, column_names, Head(df), error_type, column_names),
                 Tail(df), error_type, column_names)

\* A variant that records only the first row of df.
add_dataframe_first_row(q, df, error_type, df_columns) ==
    AddRows(EnsureErrorFile(q, df_columns), SubSeq(df, 1, Min(1, Len(df))),
            error_type, df_columns)

\* One error for all the rows of df (the only form DataLoader uses);
\* column_names is list(df.columns).
add_dataframe(q, df, error_type, df_columns) ==
    AddRows(EnsureErrorFile(q, df_columns), df, error_type, df_columns)

get_error_stats(q) == q.error_counts

\* The data lines of the run's dead-letter file.
DeadLetterRows(q) ==
    IF q.current_file = 0 THEN <<>>
    ELSE Tail(q.files[q.current_file])

----------------------------------------------------------------------------
(* The SQL executor behind db_connector.create_table(sql, if_exists).      *)

TablePolicies == {"fail", "replace", "append"}

\* The row a pre-existing table holds before the run.
OldRow == -1

db_create_table(d, if_exists) ==
    IF d.exists /\ if_exists = "fail"
    THEN [ok |-> FALSE, db |-> d]
    ELSE IF d.exists /\ if_exists = "replace"
         THEN [ok |-> TRUE, db |-> [exists |-> TRUE, rows |-> <<>>]]
         ELSE [ok |-> TRUE, db |-> [d EXCEPT !.exists = TRUE]]

\* A multi-row insert is all-or-nothing: it fails when the database rejects a row.
BulkAccepted(df) == \A i \in 1..Len(df) : Accepts(df[i])

----------------------------------------------------------------------------
(* data_loader.DataLoader *)

ChunkMethods == {"auto", "pandas", "manual", "other"}

\* A variant that goes on to the load whatever create_table returned.
TableGateOpen(table_created) == TRUE

\* if not table_created: return False
TableGate(table_created) == table_created

\* chunk_method = 'pandas' if file_size < 100 * 1024 * 1024 else 'manual'
ResolveChunkMethod(m, big) ==
    IF m = "auto" THEN (IF ~big THEN "pandas" ELSE "manual") ELSE m

\* The number of DataFrames pd.read_csv(chunksize = n) yields: a file without
\* data rows yields one empty DataFrame.
NumChunks(n) ==
    IF Len(file) = 0 THEN 1 ELSE (Len(file) + n - 1) \div n

\* A variant whose chunks hold one row more than chunksize.
ChunkOneMore(k, n) == Indexes((k - 1) * n, Min(k * n + 1, Len(file)) - 1)

\* The k-th chunk (k = 1, 2, ...) of chunksize n.
Chunk(k, n) == Indexes((k - 1) * n, Min(k * n, Len(file)) - 1)

\* A variant that commits also when no row was inserted.
ShouldCommitAlways(count) == count >= 0

\* if success_count > 0: conn.commit()
ShouldCommit(count) == count > 0

\* A variant that reports a batch without any inserted row as a success.
ManualInsertResultAlways(count) == count >= 0

\* return success_count > 0
ManualInsertResult(count) == count > 0

\* A variant of the loop that leaves the batch at the first failed row.
AfterRowBreak(i, ok) == IF ok THEN i + 1 ELSE Len(batch)

\* for idx, row in df.iterrows(): try ... except: the loop goes on to the next
\* row whether the insert of row i + 1 succeeded or not.
AfterRow(i, ok) == i + 1

\* A variant that keeps only the outcome of the last chunk.
MarkSuccessLast(s, chunk_success) == chunk_success

\* if chunk_success: success = True
MarkSuccess(s, chunk_success) == IF chunk_success THEN TRUE ELSE s

\* 'Success' if success else 'Failed'
Status(ok) == IF ok THEN "Success" ELSE "Failed"

\* A variant of load_data that analyses the file whether or not it was analysed.
NeedsAnalysisAlways(analysed) == TRUE

\* if not self.csv_analysis: self.analyze_csv()
NeedsAnalysis(analysed) == ~analysed

\* if not self.column_types: self.infer_schema()
NeedsSchema(inferred) == ~inferred

\* infer_schema: the file is analysed first if it was not, then the types and
\* the CREATE TABLE statement are computed.
infer_schema(analysed) ==
    (IF NeedsAnalysis(analysed) THEN <<"analyze_csv">> ELSE <<>>)
        \o <<"infer_schema">>

\* The calls load_data makes before its try: analyze_csv and infer_schema if
\* their results are missing (csv_analysis is set by then), then create_table
\* (whose own infer_schema call is guarded by create_table_sql, which
\* infer_schema has set).
LoadDataPrepares(analysed, inferred) ==
    (IF NeedsAnalysis(analysed) THEN <<"analyze_csv">> ELSE <<>>)
        \o (IF NeedsSchema(inferred)
            THEN infer_schema(TRUE)
            ELSE <<>>)
        \o <<"create_table">>

\* The entry points of a load: load_csv_to_sql, or DataLoader.load_data alone.
Entries == {"load_csv_to_sql", "load_data"}

\* A variant of get_error_stats that hands out the queue's own dictionary.
ErrorStatsShared(q) == [shared |-> TRUE, counts |-> q.error_counts]

\* return self.error_counts.copy(): the caller gets a dictionary of its own.
ErrorStatsOf(q) == [shared |-> FALSE, counts |-> get_error_stats(q)]

\* The caller holds no mapping before load_csv_to_sql has returned one.
NoErrorStats ==
    [returned |-> FALSE, edited |-> FALSE, shared |-> FALSE, counts |-> <<>>]

\* The labels under which load_data puts records in the dead letter queue.
ErrorLabels == {"bulk_insert_error", "row_insert_error"}

Event(ev, chunk, row, ok, size) ==
    [ev |-> ev, chunk |-> chunk, row |-> row, ok |-> ok, size |-> size]

Init ==
    /\ an = [pc |-> "None"]
    /\ cx = [pc |-> "None"]
    /\ sg = [pc |-> "None"]
    /\ error_stats = NoErrorStats
    /\ steps = <<>>
    /\ args \in [entry : Entries, chunk_method : ChunkMethods,
                 manual_insert : BOOLEAN, chunksize : 1..MaxChunk,
                 if_exists : TablePolicies]
    /\ file \in SeqsUpTo(BOOLEAN, MaxRows)
    /\ columns \in Headers
    /\ fileBig \in BOOLEAN
    /\ db0 \in {[exists |-> FALSE, rows |-> <<>>],
                [exists |-> TRUE, rows |-> <<OldRow>>]}
    /\ db = db0
    /\ pc = IF args.entry = "load_csv_to_sql" THEN "analyze_csv" ELSE "load_data"
    /\ csv_analysis = FALSE
    /\ column_types = FALSE
    /\ upload_stats = UploadStatsInit
    /\ dead_letter_queue = DeadLetterQueueInit
    /\ chunk_method = args.chunk_method
    /\ chunk_i = 0
    /\ batch = <<>>
    /\ row_i = 0
    /\ success_count = 0
    /\ conn = <<>>
    /\ success = FALSE
    /\ ret = "None"
    /\ result = "None"
    /\ trace = <<>>

\* load_csv_to_sql: loader.analyze_csv()
AnalyzeCsv ==
    /\ pc = "analyze_csv"
    /\ csv_analysis' = TRUE
    /\ steps' = Append(steps, "analyze_csv")
    /\ pc' = "infer_schema"
    /\ UNCHANGED <<an, cx, sg, error_stats, args, file, columns, fileBig, db0, db, column_types, upload_stats,
                   dead_letter_queue, chunk_method, chunk_i, batch, row_i,
                   success_count, conn, success, ret, result, trace>>

\* load_csv_to_sql: loader.infer_schema(primary_key, add_indexes)
InferSchema ==
    /\ pc = "infer_schema"
    /\ steps' = steps \o infer_schema(csv_analysis)
    /\ csv_analysis' = TRUE
    /\ column_types' = TRUE
    /\ pc' = "load_data"
    /\ UNCHANGED <<an, cx, sg, error_stats, args, file, columns, fileBig, db0, db, upload_stats,
                   dead_letter_queue, chunk_method, chunk_i, batch, row_i,
                   success_count, conn, success, ret, result, trace>>

\* load_data up to the try: the table is created, or load_data returns False.
EnsureTable ==
    /\ pc = "load_data"
    /\ LET r == db_create_table(db, args.if_exists)
       IN  /\ db' = r.db
           /\ IF TableGate(r.ok)
              THEN /\ pc' = "select_method"
                   /\ ret' = ret
              ELSE /\ pc' = "returned"
                   /\ ret' = FALSE
    /\ steps' = steps \o LoadDataPrepares(csv_analysis, column_types)
    /\ csv_analysis' = TRUE
    /\ column_types' = TRUE
    /\ UNCHANGED <<an, cx, sg, error_stats, args, file, columns, fileBig, db0, upload_stats,
                   dead_letter_queue, chunk_method, chunk_i, batch, row_i,
                   success_count, conn, success, result, trace>>

\* except Exception: record_failure(0, e); return False; finally: complete()
RaiseInLoad(error) ==
    /\ upload_stats' = complete(record_failure(upload_stats, 0, error))
    /\ ret' = FALSE
    /\ pc' = "returned"

\* return <value> inside the try; finally: complete()
ReturnFromLoad(value) ==
    /\ upload_stats' = complete(upload_stats)
    /\ ret' = value
    /\ pc' = "returned"

\* The chunk method is resolved; one that is neither pandas nor manual raises.
SelectChunkMethod ==
    /\ pc = "select_method"
    /\ LET m == ResolveChunkMethod(args.chunk_method, fileBig)
       IN  /\ chunk_method' = m
           /\ IF m \in {"pandas", "manual"}
              THEN /\ pc' = "read"
                   /\ UNCHANGED <<upload_stats, ret>>
              ELSE RaiseInLoad("ValueError")
    /\ UNCHANGED <<an, cx, sg, error_stats, steps, args, file, columns, fileBig, db0, db, csv_analysis, column_types,
                   dead_letter_queue, chunk_i, batch, row_i, success_count,
                   conn, success, result, trace>>

\* A DataFrame is in hand: the insertion strategy starts on it.
StartBatch(df) ==
    /\ batch' = df
    /\ chunk_i' = chunk_i + 1
    /\ row_i' = 0
    /\ success_count' = 0
    /\ conn' = <<>>
    /\ trace' = Append(trace, Event("read", chunk_i + 1, -1, TRUE, Len(df)))
    /\ pc' = IF args.manual_insert THEN "row_insert" ELSE "bulk_insert"

\* chunk_method 'pandas': df = pd.read_csv(**csv_params)
ReadWholeFile ==
    /\ pc = "read"
    /\ chunk_method = "pandas"
    /\ StartBatch(Indexes(0, Len(file) - 1))
    /\ UNCHANGED <<an, cx, sg, error_stats, steps, args, file, columns, fileBig, db0, db, csv_analysis, column_types,
                   upload_stats, dead_letter_queue, chunk_method, success, ret,
                   result>>

\* chunk_method 'manual': the next chunk_df of the for loop.
ReadChunk ==
    /\ pc = "read"
    /\ chunk_method = "manual"
    /\ chunk_i < NumChunks(args.chunksize)
    /\ StartBatch(Chunk(chunk_i + 1, args.chunksize))
    /\ UNCHANGED <<an, cx, sg, error_stats, steps, args, file, columns, fileBig, db0, db, csv_analysis, column_types,
                   upload_stats, dead_letter_queue, chunk_method, success, ret,
                   result>>

\* chunk_method 'manual': the chunks are exhausted, return success.
EndOfChunks ==
    /\ pc = "read"
    /\ chunk_method = "manual"
    /\ chunk_i = NumChunks(args.chunksize)
    /\ ReturnFromLoad(success)
    /\ UNCHANGED <<an, cx, sg, error_stats, steps, args, file, columns, fileBig, db0, db, csv_analysis, column_types,
                   dead_letter_queue, chunk_method, chunk_i, batch, row_i,
                   success_count, conn, success, result, trace>>

\* pd.read_csv, or the iteration over its chunks, raises.
ReadRaises ==
    /\ pc = "read"
    /\ chunk_method = "manual" => chunk_i < NumChunks(args.chunksize)
    /\ chunk_method = "pandas" => chunk_i = 0
    /\ RaiseInLoad("ParserError")
    /\ trace' = Append(trace, Event("raise", chunk_i + 1, -1, FALSE, 0))
    /\ UNCHANGED <<an, cx, sg, error_stats, steps, args, file, columns, fileBig, db0, db, csv_analysis, column_types,
                   dead_letter_queue, chunk_method, chunk_i, batch, row_i,
                   success_count, conn, success, result>>

\* What follows one insertion attempt on the batch in load_data.
AfterBatch(chunk_success) ==
    IF chunk_method = "pandas"
    THEN /\ ReturnFromLoad(chunk_success)
         /\ success' = success
    ELSE /\ success' = MarkSuccess(success, chunk_success)
         /\ pc' = "read"
         /\ UNCHANGED <<upload_stats, ret>>

\* _execute_pandas_to_sql(df) and the caller's use of its result.
BulkInsert ==
    /\ pc = "bulk_insert"
    /\ LET ok == BulkAccepted(batch)
           stats == IF ok THEN record_success(upload_stats, Len(batch))
                    ELSE record_failure(upload_stats, Len(batch), "DBError")
       IN  /\ db' = IF ok THEN [db EXCEPT !.rows = @ \o batch] ELSE db
           /\ dead_letter_queue' =
                  IF ok THEN dead_letter_queue
                  ELSE add_dataframe(dead_letter_queue, batch, "bulk_insert_error",
                                     columns)
           /\ trace' = Append(trace, Event("bulk", chunk_i, -1, ok, Len(batch)))
           /\ IF chunk_method = "pandas"
              THEN /\ upload_stats' = complete(stats)
                   /\ ret' = ok
                   /\ pc' = "returned"
                   /\ success' = success
              ELSE /\ upload_stats' = stats
                   /\ success' = MarkSuccess(success, ok)
                   /\ pc' = "read"
                   /\ ret' = ret
    /\ UNCHANGED <<an, cx, sg, error_stats, steps, args, file, columns, fileBig, db0, csv_analysis, column_types, chunk_method,
                   chunk_i, batch, row_i, success_count, conn, result>>

\* _execute_manual_insert: one pass of the loop over df.iterrows().
RowInsert ==
    /\ pc = "row_insert"
    /\ row_i < Len(batch)
    /\ LET idx == batch[row_i + 1]
           ok == Accepts(idx)
       IN  /\ conn' = IF ok THEN Append(conn, idx) ELSE conn
           /\ success_count' = IF ok THEN success_count + 1 ELSE success_count
           /\ upload_stats' = IF ok THEN record_success(upload_stats, 1)
                              ELSE record_failure(upload_stats, 1, "DBError")
           /\ dead_letter_queue' =
                  IF ok THEN dead_letter_queue
                  ELSE add_row(dead_letter_queue, columns, idx,
                               "row_insert_error", columns)
           /\ trace' = Append(trace, Event("row", chunk_i, idx, ok, 1))
           /\ row_i' = AfterRow(row_i, ok)
    /\ UNCHANGED <<an, cx, sg, error_stats, steps, args, file, columns, fileBig, db0, db, pc, csv_analysis, column_types,
                   chunk_method, chunk_i, batch, success, ret, result>>

\* _execute_manual_insert after the loop: the commit, the connection's close,
\* the return value and the caller's use of it.
FinishManualInsert ==
    /\ pc = "row_insert"
    /\ row_i = Len(batch)
    /\ db' = IF ShouldCommit(success_count)
             THEN [db EXCEPT !.rows = @ \o conn] ELSE db
    /\ trace' = IF ShouldCommit(success_count)
                THEN Append(trace, Event("commit", chunk_i, -1, TRUE, Len(conn)))
                ELSE trace
    /\ conn' = <<>>
    /\ AfterBatch(ManualInsertResult(success_count))
    /\ UNCHANGED <<an, cx, sg, error_stats, steps, args, file, columns, fileBig, db0, csv_analysis, column_types,
                   dead_letter_queue, chunk_method, chunk_i, batch, row_i,
                   success_count, result>>

\* load_csv_to_sql after load_data: the result dictionary.
BuildResult ==
    /\ pc = "returned"
    /\ args.entry = "load_csv_to_sql"
    /\ result' = Status(ret)
    /\ upload_stats' = get_summary(upload_stats)
    /\ error_stats' = [returned |-> TRUE, edited |-> FALSE]
                          @@ ErrorStatsOf(dead_letter_queue)
    /\ pc' = "done"
    /\ UNCHANGED <<an, cx, sg, steps, args, file, columns, fileBig, db0, db, csv_analysis, column_types,
                   dead_letter_queue, chunk_method, chunk_i, batch, row_i,
                   success_count, conn, success, ret, trace>>

\* The caller of load_csv_to_sql writes to result['error_stats']: an entry is
\* set to 0 for every label.  The queue's dictionary changes with it only if
\* it is the same object.
CallerEditsErrorStats ==
    /\ pc = "done"
    /\ error_stats.returned
    /\ ~error_stats.edited
    /\ LET edited == [l \in ErrorLabels |-> 0]
       IN  /\ error_stats' = [error_stats EXCEPT !.edited = TRUE,
                                                 !.counts = edited]
           /\ dead_letter_queue' =
                  IF error_stats.shared
                  THEN [dead_letter_queue EXCEPT !.error_counts = edited]
                  ELSE dead_letter_queue
    /\ UNCHANGED <<an, cx, sg, steps, args, file, columns, fileBig, db0, db, pc,
                   csv_analysis, column_types, upload_stats, chunk_method,
                   chunk_i, batch, row_i, success_count, conn, success, ret,
                   result, trace>>

Next ==
    \/ AnalyzeCsv
    \/ InferSchema
    \/ EnsureTable
    \/ SelectChunkMethod
    \/ ReadWholeFile
    \/ ReadChunk
    \/ EndOfChunks
    \/ ReadRaises
    \/ BulkInsert
    \/ RowInsert
    \/ FinishManualInsert
    \/ BuildResult
    \/ CallerEditsErrorStats

Spec == Init /\ [][Next]_vars

----------------------------------------------------------------------------
(* SchemaGenerator (src/schema_generator.py).                               *)
(* A name is a sequence of characters.  A column of the sample DataFrame is *)
(* [name, dtype, nulls, vals]: nulls is the number of NaN entries, vals the *)
(* distinct non-null values, each with the number n of entries holding it.  *)
(* A value is [str, matches, len]: whether it is a Python str, the patterns *)
(* re.match finds in it, and the length of str(value).                      *)

\* A Python dict: its items in insertion order.
DictKeys(d) == {d[i].key : i \in 1..Len(d)}

DictGet(d, k, default) ==
    IF k \in DictKeys(d)
    THEN (CHOOSE item \in Range(d) : item.key = k).value
    ELSE default

\* d[k] = v: a known key keeps its place, a new key goes to the end.
DictSet(d, k, v) ==
    IF k \in DictKeys(d)
    THEN [i \in 1..Len(d) |->
             IF d[i].key = k THEN [key |-> k, value |-> v] ELSE d[i]]
    ELSE Append(d, [key |-> k, value |-> v])

\* The characters names are written in: an ASCII letter, an ASCII digit, the
\* underscore, a punctuation mark, a letter outside ASCII (U+00E9, e acute)
\* and a digit outside ASCII (U+0663, Arabic-Indic three).
Alphabet == {"a", "1", "_", "-", "U+00E9", "U+0663"}

AsciiLetters == {"a", "b", "c", "d", "i", "k", "l", "o", "p", "t"}

\* [A-Za-z0-9_]
IsAsciiWordChar(c) == c \in AsciiLetters \cup {"1", "_"}

\* \w in a str pattern: alphanumeric in any script, or the underscore.
IsWordChar(c) == IsAsciiWordChar(c) \/ c \in {"U+00E9", "U+0663"}

\* str.isdigit()
IsDigit(c) == c \in {"1", "U+0663"}

\* A variant that replaces no character.
ReplaceNothing(name) == name

\* re.sub(r'[^\w]', '_', str(name))
ReplaceNonWord(name) ==
    [i \in 1..Len(name) |-> IF IsWordChar(name[i]) THEN name[i] ELSE "_"]

\* re.sub(r'_+', '_', sanitized)
RECURSIVE CollapseUnderscores(_)
CollapseUnderscores(s) ==
    IF Len(s) < 2 THEN s
    ELSE IF s[1] = "_" /\ s[2] = "_" THEN CollapseUnderscores(Tail(s))
    ELSE <<s[1]>> \o CollapseUnderscores(Tail(s))

_sanitize_name(name) ==
    LET sanitized == CollapseUnderscores(ReplaceNonWord(name))
    IN  IF sanitized # <<>> /\ IsDigit(sanitized[1])
        THEN <<"c", "o", "l", "_">> \o sanitized
        ELSE sanitized

PANDAS_TO_SQL_TYPE_MAP ==
    ("int64" :> "INT") @@ ("int32" :> "INT") @@ ("int16" :> "SMALLINT")
    @@ ("int8" :> "TINYINT") @@ ("uint64" :> "BIGINT UNSIGNED")
    @@ ("uint32" :> "INT UNSIGNED") @@ ("uint16" :> "SMALLINT UNSIGNED")
    @@ ("uint8" :> "TINYINT UNSIGNED") @@ ("float64" :> "DOUBLE")
    @@ ("float32" :> "FLOAT") @@ ("bool" :> "BOOLEAN")
    @@ ("datetime64[ns]" :> "DATETIME") @@ ("datetime64" :> "DATETIME")
    @@ ("object" :> "TEXT") @@ ("category" :> "VARCHAR(255)")
    @@ ("timedelta[ns]" :> "TIME") @@ ("timedelta" :> "TIME")

\* series.dropna().sample(min(10, ...)): the size of the tested sub-sample.
SampleSize == 10

RECURSIVE SumSeq(_)
SumSeq(s) == IF s = <<>> THEN 0 ELSE Head(s) + SumSeq(Tail(s))

\* len(series.dropna())
NonNullCount(vals) == SumSeq([i \in 1..Len(vals) |-> vals[i].n])

\* The outcomes of the random draw: s[i] entries holding the i-th value are
\* drawn, min(10, len(series.dropna())) entries in all.
Samples(vals) ==
    {s \in [1..Len(vals) -> 0..SampleSize] :
        /\ \A i \in 1..Len(vals) : s[i] <= vals[i].n
        /\ SumSeq(s) = Min(SampleSize, NonNullCount(vals))}

\* series.dropna().astype(str).str.len().max()
MaxLength(vals) ==
    CHOOSE m \in {vals[i].v.len : i \in 1..Len(vals)} :
        \A i \in 1..Len(vals) : vals[i].v.len <= m

\* The VARCHAR bucket of a maximum length.
VarcharBucket(max_length) ==
    IF max_length <= 10 THEN "VARCHAR(10)"
    ELSE IF max_length <= 50 THEN "VARCHAR(50)"
    ELSE IF max_length <= 100 THEN "VARCHAR(100)"
    ELSE IF max_length <= 255 THEN "VARCHAR(255)"
    ELSE IF max_length <= 1000 THEN "TEXT"
    ELSE "LONGTEXT"

\* The branch of _infer_column_type for dtype 'object', on the sample s.
ObjectColumnType(vals, s) ==
    LET sample_values == {vals[i].v : i \in {j \in 1..Len(vals) : s[j] > 0}}
        AllMatch(p) == \A v \in sample_values : p \in v.matches
    IN  IF sample_values = {} THEN "TEXT"
        ELSE IF \A v \in sample_values : v.str
        THEN IF AllMatch("date") THEN "DATE"
             ELSE IF AllMatch("time") THEN "TIME"
             ELSE IF AllMatch("email") THEN "VARCHAR(100)"
             ELSE IF AllMatch("phone") THEN "VARCHAR(20)"
             ELSE VarcharBucket(MaxLength(vals))
        ELSE "TEXT"

\* The all-NaN test, then the dtype map, then the 'object' branch, then TEXT.
_infer_column_type(series, s) ==
    IF series.vals = <<>> THEN "TEXT"
    ELSE IF series.dtype \in DOMAIN PANDAS_TO_SQL_TYPE_MAP
    THEN PANDAS_TO_SQL_TYPE_MAP[series.dtype]
    ELSE IF series.dtype = "object" THEN ObjectColumnType(series.vals, s)
    ELSE "TEXT"

\* A variant that marks every column nullable.
IsNullableAlways(null_count) == TRUE

\* is_nullable = null_count > 0
IsNullable(null_count) == null_count > 0

\* primary_key / add_indexes are given and not empty ("if primary_key and").
Requested(x) == x # <<>>

\* One line of column_definitions for a column of column_types.
ColumnClause(column, sql_type, column_attributes, primary_key) ==
    LET is_nullable ==
            DictGet(column_attributes, column, [nullable |-> TRUE]).nullable
        is_key == Requested(primary_key) /\ column = primary_key
    IN  [name |-> _sanitize_name(column), type |-> sql_type,
         not_null |-> is_key \/ ~is_nullable, primary_key |-> is_key,
         auto_increment |-> FALSE]

\* "  `id` INT NOT NULL AUTO_INCREMENT PRIMARY KEY"
IdClause ==
    [name |-> <<"i", "d">>, type |-> "INT", not_null |-> TRUE,
     primary_key |-> TRUE, auto_increment |-> TRUE]

\* A variant that never adds the id column.
NeedsIdColumnNever(primary_key, types) == FALSE

\* if primary_key and primary_key not in self.column_types
NeedsIdColumn(primary_key, types) ==
    Requested(primary_key) /\ primary_key \notin DictKeys(types)

\* A variant that puts the clause after the others.
InsertLast(column_definitions, clause) == Append(column_definitions, clause)

\* column_definitions.insert(0, clause)
InsertFirst(column_definitions, clause) == <<clause>> \o column_definitions

\* A variant that also indexes the primary key.
IndexWantedIfKnown(idx_column, types, primary_key) ==
    idx_column \in DictKeys(types)

\* if idx_column in self.column_types and idx_column != primary_key
IndexWanted(idx_column, types, primary_key) ==
    idx_column \in DictKeys(types) /\ idx_column # primary_key

\* INDEX `idx_<safe>` (`<safe>`)
IndexClause(idx_column) ==
    [name |-> <<"i", "d", "x", "_">> \o _sanitize_name(idx_column),
     column |-> _sanitize_name(idx_column), of |-> idx_column]

\* The statement, as its parts: the table name, the column clauses in their
\* order, the index clauses in their order.
generate_create_table_sql(g) ==
    LET types == g.column_types
        column_definitions ==
            [i \in 1..Len(types) |->
                ColumnClause(types[i].key, types[i].value,
                             g.column_attributes, g.primary_key)]
        wanted ==
            SelectSeq(g.add_indexes,
                      LAMBDA idx : IndexWanted(idx, types, g.primary_key))
    IN  [table |-> _sanitize_name(g.table_name),
         columns |-> IF NeedsIdColumn(g.primary_key, types)
                     THEN InsertFirst(column_definitions, IdClause)
                     ELSE column_definitions,
         indexes |-> [i \in 1..Len(wanted) |-> IndexClause(wanted[i])]]

NoSql == [table |-> <<>>, columns |-> <<>>, indexes |-> <<>>]

\* DataLoader._create_insert_statement: INSERT INTO `<table_name>`
\* (`<col>`, ...) VALUES (:<col>, ...), by its table and column identifiers.
_create_insert_statement(table_name, cols) ==
    [table |-> table_name, columns |-> cols]

NoInsert == [table |-> <<>>, columns |-> <<>>]

\* SchemaGenerator(df) and the arguments infer_schema_and_generate_sql passes.
NewGenerator(df, table_name, primary_key, add_indexes) ==
    [pc |-> "infer_column_types", df |-> df, table_name |-> table_name,
     primary_key |-> primary_key, add_indexes |-> add_indexes,
     column_i |-> 0, column_types |-> <<>>, column_attributes |-> <<>>,
     create_table_sql |-> NoSql, insert_stmt |-> NoInsert]

loaderVars ==
    <<error_stats, steps, args, file, columns, fileBig, db0, db, pc,
      csv_analysis, column_types, upload_stats, dead_letter_queue,
      chunk_method, chunk_i, batch, row_i, success_count, conn, success, ret,
      result, trace>>

\* One pass of the loop of infer_column_types, over the next column.
InferColumnType ==
    /\ sg.pc = "infer_column_types"
    /\ sg.column_i < Len(sg.df)
    /\ LET series == sg.df[sg.column_i + 1]
       IN  \E s \in Samples(series.vals) :
               sg' = [sg EXCEPT
                   !.column_types =
                       DictSet(@, series.name, _infer_column_type(series, s)),
                   !.column_attributes =
                       DictSet(@, series.name,
                               [nullable |-> IsNullable(series.nulls)]),
                   !.column_i = @ + 1,
                   !.pc = IF sg.column_i + 1 = Len(sg.df)
                          THEN "generate_create_table_sql" ELSE @]
    /\ UNCHANGED <<loaderVars, an, cx>>

\* generate_create_table_sql: ValueError without column types.
GenerateCreateTableSql ==
    /\ sg.pc = "generate_create_table_sql"
    /\ sg' = IF sg.column_types = <<>>
             THEN [sg EXCEPT !.pc = "raised"]
             ELSE [sg EXCEPT !.pc = "generated",
                             !.create_table_sql = generate_create_table_sql(sg)]
    /\ UNCHANGED <<loaderVars, an, cx>>

\* _execute_manual_insert builds the INSERT statement of the load whose
\* CREATE TABLE statement was generated, from self.table_name and df.columns.
CreateInsertStatement ==
    /\ sg.pc = "generated"
    /\ sg' = [sg EXCEPT
                 !.pc = "insert_statement",
                 !.insert_stmt =
                     _create_insert_statement(
                         sg.table_name,
                         [i \in 1..Len(sg.df) |-> sg.df[i].name])]
    /\ UNCHANGED <<loaderVars, an, cx>>

NextSchema ==
    \/ InferColumnType
    \/ GenerateCreateTableSql
    \/ CreateInsertStatement

\* Values of the sample columns.
Text(n) == [str |-> TRUE, matches |-> {}, len |-> n]

Number == [str |-> FALSE, matches |-> {}, len |-> 1]

\* Plain texts on both sides of every bucket limit, then a date
\* ("2024-01-31"), a date that is also a phone number ("12-01-2024"), a time
\* ("12:30:00"), an e-mail address ("ab@cd.com"), an e-mail address that
\* starts like a date ("2024-01-31@cd.com"), a phone number ("+84 912 345 678")
\* and a value that is not a str.
ObjectValues ==
    <<Text(10), Text(12), Text(50), Text(51), Text(100), Text(101),
      Text(255), Text(256), Text(1000), Text(1001),
      [str |-> TRUE, matches |-> {"date"}, len |-> 10],
      [str |-> TRUE, matches |-> {"date", "phone"}, len |-> 10],
      [str |-> TRUE, matches |-> {"time"}, len |-> 8],
      [str |-> TRUE, matches |-> {"email"}, len |-> 9],
      [str |-> TRUE, matches |-> {"date", "email"}, len |-> 17],
      [str |-> TRUE, matches |-> {"phone"}, len |-> 15],
      Number>>

\* How many entries of a column hold one value.
Counts == {1, SampleSize}

\* Columns of strings: up to MaxClasses distinct values, with or without a
\* NaN entry, read as dtype object or as pandas' string dtype.
ObjectColumns ==
    {[dtype |-> d, nulls |-> k,
      vals |-> [i \in 1..Len(q) |-> [v |-> ObjectValues[q[i]], n |-> c[i]]]] :
        d \in {"object", "string"}, k \in 0..1,
        c \in [1..MaxClasses -> Counts],
        q \in {p \in SeqsUpTo(1..Len(ObjectValues), MaxClasses) :
                  \A i \in 1..(Len(p) - 1) : p[i] < p[i + 1]}}

IntColumn == [dtype |-> "int64", nulls |-> 0, vals |-> <<[v |-> Number, n |-> 1]>>]

FloatColumn ==
    [dtype |-> "float64", nulls |-> 1, vals |-> <<[v |-> Number, n |-> SampleSize]>>]

TextColumn == [dtype |-> "object", nulls |-> 0, vals |-> <<[v |-> Text(12), n |-> 1]>>]

NamedColumn(name, series) == [name |-> name] @@ series

\* Frames of one column, for the type inference.
InferFrames ==
    {<<NamedColumn(<<"c">>, series)>> :
        series \in ObjectColumns \cup {IntColumn, FloatColumn}}

\* Column names of the frames whose table definition is generated.
SchemaNames == {<<"i", "d">>, <<"a">>, <<"1", "a">>}

\* Frames of up to MaxCols columns with distinct names.
DdlFrames ==
    UNION {
        {[i \in 1..Len(names) |-> NamedColumn(names[i], series[i])] :
            series \in [1..Len(names) -> {IntColumn, FloatColumn, TextColumn}]} :
        names \in {ns \in SeqsUpTo(SchemaNames, MaxCols) :
                      /\ ns # <<>>
                      /\ \A i, j \in 1..Len(ns) : i # j => ns[i] # ns[j]}}

\* All names of up to MaxNameLen characters.
Names == SeqsUpTo(Alphabet, MaxNameLen)

\* A SchemaGenerator at work alone, on any of: a one-column frame of every
\* content, a frame with every choice of primary key and indexes, a frame
\* and a table of every name.
InitSchema ==
    /\ \/ \E df \in InferFrames :
              sg = NewGenerator(df, <<"t">>, <<>>, <<>>)
       \/ \E df \in DdlFrames, primary_key \in {<<>>} \cup SchemaNames,
             add_indexes \in SeqsUpTo(SchemaNames, MaxIndexes) :
              sg = NewGenerator(df, <<"t">>, primary_key, add_indexes)
       \/ \E name \in Names \ {<<>>} :
              sg = NewGenerator(<<NamedColumn(name, TextColumn)>>, <<"t">>,
                                <<>>, <<name>>)
       \/ \E name \in Names :
              sg = NewGenerator(<<NamedColumn(<<"c">>, TextColumn)>>, name,
                                <<>>, <<>>)
    /\ an = [pc |-> "None"]
    /\ cx = [pc |-> "None"]
    /\ error_stats = NoErrorStats
    /\ steps = <<>>
    /\ args = [entry |-> "load_csv_to_sql", chunk_method |-> "auto",
               manual_insert |-> FALSE, chunksize |-> 1, if_exists |-> "fail"]
    /\ file = <<>>
    /\ columns = <<"id", "name">>
    /\ fileBig = FALSE
    /\ db0 = [exists |-> FALSE, rows |-> <<>>]
    /\ db = db0
    /\ pc = "None"
    /\ csv_analysis = FALSE
    /\ column_types = FALSE
    /\ upload_stats = UploadStatsInit
    /\ dead_letter_queue = DeadLetterQueueInit
    /\ chunk_method = "auto"
    /\ chunk_i = 0
    /\ batch = <<>>
    /\ row_i = 0
    /\ success_count = 0
    /\ conn = <<>>
    /\ success = FALSE
    /\ ret = "None"
    /\ result = "None"
    /\ trace = <<>>

SpecSchema == InitSchema /\ [][NextSchema]_vars

----------------------------------------------------------------------------
(* CSVAnalyzer (src/csv_analyzer.py).                                       *)
(* an.env is what the file gives to the analyzer: chardet's answer, the     *)
(* encodings under which the first lines can be opened and decoded, the     *)
(* sniffer's delimiter (or "raise"), the sample by its length and the       *)
(* count of every candidate delimiter in it, and has_header's answer (or    *)
(* "raise").  None is "None" for a name and <<>> for a row number.          *)

\* potential_delimiters, in the order of the list.
Candidates == <<",", ";", "TAB", "|", " ">>

Encodings == {"utf-8", "EUC-TW"}

\* The samples of up to MaxSample characters, by what the fallback reads of
\* them.
SampleTexts ==
    {t \in [len : 0..MaxSample, counts : [Range(Candidates) -> 0..MaxSample]] :
        SumSeq([i \in 1..Len(Candidates) |-> t.counts[Candidates[i]]]) <= t.len}

FileEnvs ==
    {e \in [chardet : [encoding : Encodings \cup {"None"}, confident : BOOLEAN],
            opens : SUBSET Encodings,
            sniff : {"raise", ",", ";"},
            sample : SampleTexts,
            has_header : {"raise", "True", "False"}] :
        /\ e.chardet.encoding = "None" => ~e.chardet.confident
        /\ e.sniff # "raise" => e.sample.len = 0}

\* CSVAnalyzer.__init__ on an existing file.
NewAnalyzer(env) ==
    [pc |-> "ready", env |-> env, encoding |-> "None", delimiter |-> "None",
     has_header |-> TRUE, header_row |-> <<0>>,
     call |-> "None", raised |-> FALSE, via |-> "None",
     ret_name |-> "None", ret_header |-> [has_header |-> TRUE, header_row |-> <<0>>]]

\* The call ends: with a value, or with an exception.
Returned(a, call) == [a EXCEPT !.call = call, !.raised = FALSE]

Raises(a, call) == [a EXCEPT !.call = call, !.raised = TRUE]

\* if confidence < 0.7: encoding = 'utf-8'
detect_encoding(a) ==
    LET encoding == IF a.env.chardet.confident THEN a.env.chardet.encoding
                    ELSE "utf-8"
    IN  [Returned(a, "detect_encoding") EXCEPT
             !.encoding = encoding, !.ret_name = encoding]

\* A variant that also keeps a candidate found in exactly half the sample.
KeptCandidatesUpToHalf(sample) ==
    {d \in Range(Candidates) :
        sample.counts[d] > 0 /\ 2 * sample.counts[d] <= sample.len}

\* filtered_delimiters: c > 0 and c < len(sample) / 2
KeptCandidates(sample) ==
    {d \in Range(Candidates) :
        sample.counts[d] > 0 /\ 2 * sample.counts[d] < sample.len}

\* max(filtered_delimiters, key=filtered_delimiters.get): the first of the
\* kept candidates, in the order of the list, that has the highest count.
MostFrequent(sample, kept) ==
    LET best(i) == /\ Candidates[i] \in kept
                   /\ \A d \in kept : sample.counts[d] <= sample.counts[Candidates[i]]
        first == CHOOSE i \in 1..Len(Candidates) :
                     best(i) /\ \A j \in 1..(i - 1) : ~best(j)
    IN  Candidates[first]

\* The except branch of detect_delimiter once the sample is bound.
FallbackDelimiter(sample) ==
    IF KeptCandidates(sample) # {}
    THEN MostFrequent(sample, KeptCandidates(sample))
    ELSE ","

\* if not self.encoding: self.detect_encoding()
WithEncoding(a) == IF a.encoding = "None" THEN detect_encoding(a) ELSE a

\* detect_delimiter.  When open or readline raises, sample is not bound and
\* the handler's sample.count(d) raises UnboundLocalError out of the call.
detect_delimiter(a) ==
    LET b == WithEncoding(a)
    IN  IF b.encoding \notin b.env.opens
        THEN [Raises(b, "detect_delimiter") EXCEPT !.via = "None"]
        ELSE IF b.env.sniff # "raise"
        THEN [Returned(b, "detect_delimiter") EXCEPT
                  !.delimiter = b.env.sniff, !.ret_name = b.env.sniff,
                  !.via = "sniffer"]
        ELSE [Returned(b, "detect_delimiter") EXCEPT
                  !.delimiter = FallbackDelimiter(b.env.sample),
                  !.ret_name = FallbackDelimiter(b.env.sample),
                  !.via = "fallback"]

\* A variant whose except branch answers "no header".
HeaderDefaultNone == [has_header |-> FALSE, header_row |-> <<>>]

\* except Exception: has_header = True, header_row = 0; return True, 0
HeaderDefault == [has_header |-> TRUE, header_row |-> <<0>>]

\* return has_header, 0 if has_header else None
HeaderFound(has_header) ==
    [has_header |-> has_header,
     header_row |-> IF has_header THEN <<0>> ELSE <<>>]

\* detect_header: the encoding and the delimiter are detected if they are
\* missing (outside the try), then the header is sniffed inside the try.
detect_header(a) ==
    LET b == WithEncoding(a)
        c == IF b.delimiter = "None" THEN detect_delimiter(b) ELSE b
        sniffing_raises ==
            c.encoding \notin c.env.opens \/ c.env.has_header = "raise"
        pair == IF sniffing_raises THEN HeaderDefault
                ELSE HeaderFound(c.env.has_header = "True")
    IN  IF b.delimiter = "None" /\ c.raised
        THEN Raises(c, "detect_header")
        ELSE [Returned(c, "detect_header") EXCEPT
                  !.has_header = pair.has_header,
                  !.header_row = pair.header_row,
                  !.ret_header = pair,
                  !.via = IF sniffing_raises THEN "default" ELSE "sniffer"]

analyzerIdle ==
    <<cx, sg, error_stats, steps, args, file, columns, fileBig, db0, db, pc,
      csv_analysis, column_types, upload_stats, dead_letter_queue,
      chunk_method, chunk_i, batch, row_i, success_count, conn, success, ret,
      result, trace>>

DetectEncoding ==
    /\ an.pc = "ready"
    /\ an' = detect_encoding(an)
    /\ UNCHANGED analyzerIdle

DetectDelimiter ==
    /\ an.pc = "ready"
    /\ an' = detect_delimiter(an)
    /\ UNCHANGED analyzerIdle

DetectHeader ==
    /\ an.pc = "ready"
    /\ an' = detect_header(an)
    /\ UNCHANGED analyzerIdle

NextAnalyzer ==
    \/ DetectEncoding
    \/ DetectDelimiter
    \/ DetectHeader

\* The loader's variables in a state where no DataLoader is at work.
LoaderUnused ==
    /\ error_stats = NoErrorStats
    /\ steps = <<>>
    /\ args = [entry |-> "load_csv_to_sql", chunk_method |-> "auto",
               manual_insert |-> FALSE, chunksize |-> 1, if_exists |-> "fail"]
    /\ file = <<>>
    /\ columns = <<"id", "name">>
    /\ fileBig = FALSE
    /\ db0 = [exists |-> FALSE, rows |-> <<>>]
    /\ db = db0
    /\ pc = "None"
    /\ csv_analysis = FALSE
    /\ column_types = FALSE
    /\ upload_stats = UploadStatsInit
    /\ dead_letter_queue = DeadLetterQueueInit
    /\ chunk_method = "auto"
    /\ chunk_i = 0
    /\ batch = <<>>
    /\ row_i = 0
    /\ success_count = 0
    /\ conn = <<>>
    /\ success = FALSE
    /\ ret = "None"
    /\ result = "None"
    /\ trace = <<>>

InitAnalyzer ==
    /\ an \in {NewAnalyzer(env) : env \in FileEnvs}
    /\ cx = [pc |-> "None"]
    /\ sg = [pc |-> "None"]
    /\ LoaderUnused

SpecAnalyzer == InitAnalyzer /\ [][NextAnalyzer]_vars

----------------------------------------------------------------------------
(* An UploadStats under any sequence of calls.                              *)

\* The exceptions a caller passes to record_failure, "None" for none.
Errors == {"None", "CSVUploadError", "ValueError"}

statsIdle ==
    <<an, cx, sg, error_stats, steps, args, file, columns, fileBig, db0, db,
      pc, csv_analysis, column_types, dead_letter_queue, chunk_method,
      chunk_i, batch, row_i, success_count, conn, success, ret, result, trace>>

\* record_success(num_rows) with any num_rows >= 0.
RecordSuccess ==
    /\ \E num_rows \in 0..MaxRows :
           /\ upload_stats.total_rows + num_rows <= 2 * MaxRows
           /\ upload_stats' = record_success(upload_stats, num_rows)
    /\ UNCHANGED statsIdle

\* record_failure(num_rows, error) with any num_rows >= 0, with or without
\* an error.
RecordFailure ==
    /\ \E num_rows \in 0..MaxRows, error \in Errors :
           /\ upload_stats.total_rows + num_rows <= 2 * MaxRows
           /\ error # "None" => Len(upload_stats.errors) < MaxRows
           /\ upload_stats' = record_failure(upload_stats, num_rows, error)
    /\ UNCHANGED statsIdle

NextStats ==
    \/ RecordSuccess
    \/ RecordFailure

InitStats ==
    /\ an = [pc |-> "None"]
    /\ cx = [pc |-> "None"]
    /\ sg = [pc |-> "None"]
    /\ LoaderUnused

SpecStats == InitStats /\ [][NextStats]_vars

----------------------------------------------------------------------------
(* db_connector.DatabaseConnector.load_csv_to_table and main.load_csv_to_db *)
(* (runs without --analyze-only).                                           *)

\* A table row: the file row it was written from (0 for a row the table held
\* before the load) and the value of a synthesised id (0 when the id was not
\* synthesised).
OldTableRow == [row |-> 0, id |-> 0]

\* What happens to a chunk: it is read and the database takes it ("ok"), it
\* is read and the database rejects its insert ("fail"), or reading it from
\* the file raises ("raise").
Outcomes == {"ok", "fail", "raise"}

\* pd.read_csv(csv_file, chunksize = n) of a file of nrows rows yields this
\* many chunks (a file of a header alone yields one empty chunk).
ChunkCount(nrows, n) ==
    IF nrows = 0 THEN 1 ELSE (nrows + n - 1) \div n

\* The k-th chunk (k = 0, 1, ...) as read from the file.
FileChunk(e, k) ==
    [has_id |-> e.id_in_file,
     rows   |-> [j \in 1..(Min((k + 1) * e.chunk_size, e.nrows)
                              - k * e.chunk_size) |->
                    [row |-> k * e.chunk_size + j, id |-> 0]]]

\* A variant that hands the caller's policy to every chunk.
CurrentIfExistsSame(if_exists, i) == if_exists

\* current_if_exists = if_exists if i == 0 else 'append'
CurrentIfExists(if_exists, i) ==
    IF i = 0 THEN if_exists ELSE "append"

\* df.insert(0, id_name, range(start_id, start_id + len(df)))
InsertId(df, start_id) ==
    [has_id |-> TRUE,
     rows   |-> [j \in 1..Len(df.rows) |->
                    [df.rows[j] EXCEPT !.id = start_id + j - 1]]]

\* The id column load_csv_to_table gives a chunk before handing it on.
LctAssignId(chunk, add_id, current_if_exists, i, total_rows) ==
    IF add_id /\ ~chunk.has_id /\ (current_if_exists = "replace" \/ i = 0)
    THEN InsertId(chunk, total_rows + 1)
    ELSE chunk

\* The id column create_table_from_df gives a DataFrame that has none.
DfAssignId(df, add_id) ==
    IF add_id /\ ~df.has_id THEN InsertId(df, 1) ELSE df

\* df.to_sql(name, con, if_exists): refuses an existing table under 'fail'
\* with a ValueError; otherwise drops and creates the table ('replace') or
\* creates a missing one, then inserts the rows in one transaction, which
\* the database takes or rejects with an SQLAlchemyError.
to_sql(table, df, if_exists, outcome) ==
    IF table.exists /\ if_exists = "fail"
    THEN [result |-> "ValueError", table |-> table]
    ELSE LET kept == IF table.exists /\ if_exists = "append"
                     THEN table.rows ELSE <<>>
         IN  IF outcome = "ok"
             THEN [result |-> "ok",
                   table  |-> [exists |-> TRUE, rows |-> kept \o df.rows]]
             ELSE [result |-> "SQLAlchemyError",
                   table  |-> [exists |-> TRUE, rows |-> kept]]

\* A variant that reports a rejected insert as a success.
CreateResultSwallowed(res) ==
    IF res = "ValueError" THEN "raise" ELSE "True"

\* create_table_from_df returns True after to_sql, False on an
\* SQLAlchemyError, and lets any other exception through.
CreateResult(res) ==
    CASE res = "ok" -> "True"
      [] res = "SQLAlchemyError" -> "False"
      [] OTHER -> "raise"

\* create_table_from_df(df, table_name, if_exists): connects when there is
\* no connection; without an engine to_sql raises.
create_table_from_df(c, df, if_exists, outcome) ==
    LET connected == c.connected \/ c.env.connect_ok
    IN  IF ~connected
        THEN [ret |-> "raise", table |-> c.table, connected |-> FALSE,
              opened |-> c.opened]
        ELSE LET r == to_sql(c.table, DfAssignId(df, c.env.add_id),
                             if_exists, outcome)
             IN  [ret |-> CreateResult(r.result), table |-> r.table,
                  connected |-> TRUE, opened |-> TRUE]

\* DatabaseConnector.disconnect
disconnect(c) == [c EXCEPT !.connected = FALSE]

NoLctReturn == [success |-> "None", rows |-> 0]

\* A run of load_csv_to_table (entry "load_csv_to_table") or of main's
\* load_csv_to_db (entry "load_csv_to_db") in the environment env.
NewRun(env) ==
    [pc |-> env.entry, env |-> env,
     connected |-> env.connected0, opened |-> env.connected0,
     table |-> env.table0, i |-> 0, total_rows |-> 0,
     lct_ret |-> NoLctReturn, ret |-> "None"]

connectorIdle ==
    <<an, sg, error_stats, steps, args, file, columns, fileBig, db0, db, pc,
      csv_analysis, column_types, upload_stats, dead_letter_queue,
      chunk_method, chunk_i, batch, row_i, success_count, conn, success, ret,
      result, trace>>

\* load_csv_to_db returns r; finally tells whether the finally clause is passed.
MainReturn(c, r, finally) ==
    LET after == IF finally THEN disconnect(c) ELSE c
    IN  [after EXCEPT !.pc = "done", !.ret = r]

\* load_csv_to_table returns (success, total_rows), to main or to its caller.
LctReturn(c, s) ==
    [c EXCEPT
       !.lct_ret = [success |-> s, rows |-> c.total_rows],
       !.pc = IF c.env.entry = "load_csv_to_table"
              THEN "done" ELSE "after_load_csv_to_table",
       !.ret = IF c.env.entry = "load_csv_to_table" THEN s ELSE @]

\* load_csv_to_db up to the connection: the file check and connect().
MainConnect ==
    /\ cx.pc = "load_csv_to_db"
    /\ cx' = IF ~cx.env.file_exists
             THEN MainReturn(cx, "False", FALSE)
             ELSE IF ~cx.env.connect_ok
                  THEN MainReturn(cx, "False", FALSE)
                  ELSE [cx EXCEPT !.connected = TRUE, !.opened = TRUE,
                                  !.pc = "table_exists"]
    /\ UNCHANGED connectorIdle

\* if db_connector.table_exists(table_name) and if_exists == 'fail'
MainTableExists ==
    /\ cx.pc = "table_exists"
    /\ cx' = IF cx.table.exists /\ cx.env.if_exists = "fail"
             THEN MainReturn(cx, "False", FALSE)
             ELSE [cx EXCEPT !.pc = "dry_run"]
    /\ UNCHANGED connectorIdle

\* if args.dry_run: read a sample and return; otherwise enter the try
\* statement and choose by chunk_method.
MainDryRun ==
    /\ cx.pc = "dry_run"
    /\ cx' = IF cx.env.dry_run
             THEN IF cx.env.outcomes[1] = "raise"
                  THEN MainReturn(cx, "raise", FALSE)
                  ELSE MainReturn(cx, "True", FALSE)
             ELSE [cx EXCEPT !.pc = IF cx.env.chunk_method = "pandas"
                                    THEN "load_csv_to_table"
                                    ELSE "manual"]
    /\ UNCHANGED connectorIdle

\* load_csv_to_table up to its loop: the file check and connect().
LctStart ==
    /\ cx.pc = "load_csv_to_table"
    /\ cx' = IF ~cx.env.file_exists
             THEN LctReturn(cx, "False")
             ELSE [cx EXCEPT
                     !.connected = @ \/ cx.env.connect_ok,
                     !.opened = @ \/ cx.env.connect_ok,
                     !.total_rows = 0, !.i = 0,
                     !.pc = "load_csv_to_table_loop"]
    /\ UNCHANGED connectorIdle

\* One pass of the loop of load_csv_to_table, over the next chunk.
LctChunk ==
    /\ cx.pc = "load_csv_to_table_loop"
    /\ cx.i < ChunkCount(cx.env.nrows, cx.env.chunk_size)
    /\ LET e == cx.env
           outcome == e.outcomes[cx.i + 1]
           current_if_exists == CurrentIfExists(e.if_exists, cx.i)
           chunk == LctAssignId(FileChunk(e, cx.i), e.add_id,
                                current_if_exists, cx.i, cx.total_rows)
           r == create_table_from_df(cx, chunk, current_if_exists, outcome)
           called == [cx EXCEPT !.table = r.table,
                                !.connected = r.connected,
                                !.opened = r.opened]
       IN  cx' = IF outcome = "raise"
                 THEN LctReturn(cx, "False")
                 ELSE IF r.ret = "True"
                      THEN [called EXCEPT
                              !.total_rows = @ + Len(chunk.rows),
                              !.i = @ + 1]
                      ELSE LctReturn(called, "False")
    /\ UNCHANGED connectorIdle

\* The loop of load_csv_to_table is over: return True, total_rows.
LctEnd ==
    /\ cx.pc = "load_csv_to_table_loop"
    /\ cx.i = ChunkCount(cx.env.nrows, cx.env.chunk_size)
    /\ cx' = LctReturn(cx, "True")
    /\ UNCHANGED connectorIdle

\* success, rows = db_connector.load_csv_to_table(...); total_rows = rows;
\* return True, through the finally clause.
MainAfterLct ==
    /\ cx.pc = "after_load_csv_to_table"
    /\ cx' = MainReturn([cx EXCEPT !.total_rows = cx.lct_ret.rows],
                        "True", TRUE)
    /\ UNCHANGED connectorIdle

\* One pass of main's loop over the chunks: process_chunk_manually.
ManualChunk ==
    /\ cx.pc = "manual"
    /\ cx.i < ChunkCount(cx.env.nrows, cx.env.chunk_size)
    /\ LET e == cx.env
           outcome == e.outcomes[cx.i + 1]
           current_if_exists == CurrentIfExists(e.if_exists, cx.i)
           chunk == FileChunk(e, cx.i)
           r == create_table_from_df(cx, chunk, current_if_exists, outcome)
           called == [cx EXCEPT !.table = r.table,
                                !.connected = r.connected,
                                !.opened = r.opened]
       IN  cx' = IF outcome = "raise"
                 THEN MainReturn(cx, "False", TRUE)
                 ELSE IF r.ret = "True"
                      THEN [called EXCEPT
                              !.total_rows = @ + Len(chunk.rows),
                              !.i = @ + 1]
                      ELSE MainReturn(called, "False", TRUE)
    /\ UNCHANGED connectorIdle

\* main's loop is over: return True, through the finally clause.
ManualEnd ==
    /\ cx.pc = "manual"
    /\ cx.i = ChunkCount(cx.env.nrows, cx.env.chunk_size)
    /\ cx' = MainReturn(cx, "True", TRUE)
    /\ UNCHANGED connectorIdle

NextConnector ==
    \/ MainConnect
    \/ MainTableExists
    \/ MainDryRun
    \/ LctStart
    \/ LctChunk
    \/ LctEnd
    \/ MainAfterLct
    \/ ManualChunk
    \/ ManualEnd

\* How a run is entered: load_csv_to_table called on a connector that is
\* connected or not, or load_csv_to_db with its arguments on a fresh one.
ConnectorEntries ==
    {[entry |-> "load_csv_to_table", chunk_method |-> "pandas",
      dry_run |-> FALSE, connected0 |-> c0] : c0 \in BOOLEAN}
    \cup {[entry |-> "load_csv_to_db", chunk_method |-> m,
           dry_run |-> d, connected0 |-> FALSE] :
             m \in {"pandas", "manual"}, d \in BOOLEAN}

\* The file: missing, or nrows rows with or without an id column.
ConnectorFiles ==
    {[file_exists |-> FALSE, nrows |-> 0, id_in_file |-> FALSE]}
    \cup {[file_exists |-> TRUE, nrows |-> r, id_in_file |-> h] :
             r \in 0..MaxRows, h \in BOOLEAN}

\* A run in every environment: the entry, the file, what happens to each of
\* its chunks, the table before the run, the configuration and the policy.
InitConnector ==
    /\ an = [pc |-> "None"]
    /\ sg = [pc |-> "None"]
    /\ LoaderUnused
    /\ \E en \in ConnectorEntries, f \in ConnectorFiles, n \in 1..MaxChunk,
          p \in TablePolicies, a \in BOOLEAN, co \in BOOLEAN, te \in BOOLEAN :
         \E o \in [1..ChunkCount(f.nrows, n) -> Outcomes] :
           cx = NewRun(
                  [entry |-> en.entry, chunk_method |-> en.chunk_method,
                   dry_run |-> en.dry_run, connected0 |-> en.connected0,
                   file_exists |-> f.file_exists, nrows |-> f.nrows,
                   id_in_file |-> f.id_in_file, chunk_size |-> n,
                   outcomes |-> o, if_exists |-> p, add_id |-> a,
                   connect_ok |-> co,
                   table0 |-> [exists |-> te,
                               rows |-> IF te THEN <<OldTableRow>>
                                        ELSE <<>>]])

SpecConnector == InitConnector /\ [][NextConnector]_vars

----------------------------------------------------------------------------
(* Vocabulary of the properties *)

\* The rows of the c-th DataFrame handed to an insertion attempt.
BatchOf(c) ==
    IF chunk_method = "pandas" THEN Indexes(0, Len(file) - 1)
    ELSE Chunk(c, args.chunksize)

\* The events of one kind, in order.
EventsOf(ev) == SelectSeq(trace, LAMBDA e : e.ev = ev)

\* The positions in the trace of the events of kind ev on chunk c.
At(ev, c) == {i \in 1..Len(trace) : trace[i].ev = ev /\ trace[i].chunk = c}

\* The rows of the batches whose multi-row insert failed, in order.
RECURSIVE RowsOfFailedBulks(_)
RowsOfFailedBulks(tr) ==
    IF tr = <<>> THEN <<>>
    ELSE (IF Head(tr).ev = "bulk" /\ ~Head(tr).ok
          THEN BatchOf(Head(tr).chunk) ELSE <<>>) \o RowsOfFailedBulks(Tail(tr))

\* The rows whose single-row insert failed, in order.
FailedRowInserts ==
    LET failed == SelectSeq(trace, LAMBDA e : e.ev = "row" /\ ~e.ok)
    IN  [i \in 1..Len(failed) |-> failed[i].row]

\* The rows recorded in the run's dead-letter file, in order.
DeadLetterRowIds ==
    LET lines == DeadLetterRows(dead_letter_queue)
    IN  [i \in 1..Len(lines) |-> lines[i].row]

DeadLetterTypes ==
    {l.error_type : l \in Range(DeadLetterRows(dead_letter_queue))}

Raised == \E i \in 1..Len(trace) : trace[i].ev = "raise"

\* n and k of a run: the rows of the file, and those the database rejects.
NRows == Len(file)
NRejected == Cardinality({i \in 1..Len(file) : ~file[i]})

\* The run is over (the result is built) and it had exactly one batch, holding
\* the whole file, and nothing was raised while streaming.
SingleBatchRun ==
    /\ pc = "done"
    /\ chunk_i = 1
    /\ Len(batch) = Len(file)
    /\ ~Raised

----------------------------------------------------------------------------
(* C1 *)

----------------------------------------------------------------------------
(* C2 *)

----------------------------------------------------------------------------
(* C3 *)

\* C3: a run whose only batch has n >= 1 rows, all rejected, ends with 0
\* successes, n failures, n dead-letter records and status Failed, in bulk
\* mode and in row mode.
C3_AllRejectedBatchFails ==
    (SingleBatchRun /\ NRows >= 1 /\ NRejected = NRows) =>
        /\ upload_stats.successful_rows = 0
        /\ upload_stats.failed_rows = NRows
        /\ Len(DeadLetterRowIds) = NRows
        /\ result = "Failed"
        /\ db.rows \in {<<>>, <<OldRow>>}

\* A row-mode run over one batch of several rows, all rejected, is over.
C3_Witness ==
    /\ SingleBatchRun
    /\ args.manual_insert
    /\ NRows >= 2
    /\ NRejected = NRows

----------------------------------------------------------------------------
(* C4 *)

\* The single-row attempts on chunk c, in order.
RowAttempts(c) == SelectSeq(trace, LAMBDA e : e.ev = "row" /\ e.chunk = c)

\* C4: in row mode every row of a batch is attempted exactly once, in batch
\* order, whatever the outcome of the rows before it; each attempt adds one
\* to exactly one of successful_rows and failed_rows, each failed attempt
\* adds exactly one dead-letter record; after the batch the two counters
\* have grown by the batch length.
C4_RowModeAttemptsEveryRow ==
    args.manual_insert =>
        /\ \A c \in 1..chunk_i :
               LET att == RowAttempts(c)
                   done == IF c = chunk_i /\ pc = "row_insert"
                           THEN row_i ELSE Len(BatchOf(c))
               IN  /\ Len(att) = done
                   /\ \A j \in 1..Len(att) :
                          /\ att[j].row = BatchOf(c)[j]
                          /\ att[j].ok = Accepts(att[j].row)
        /\ upload_stats.successful_rows =
               Len(SelectSeq(trace, LAMBDA e : e.ev = "row" /\ e.ok))
        /\ upload_stats.failed_rows = Len(FailedRowInserts)
        /\ upload_stats.successful_rows + upload_stats.failed_rows =
               Len(EventsOf("row"))
        /\ DeadLetterRowIds = FailedRowInserts
        /\ DeadLetterTypes \subseteq {"row_insert_error"}

\* A batch was attempted to its end although its first row failed.
C4_Witness ==
    /\ args.manual_insert
    /\ pc = "row_insert"
    /\ row_i = Len(batch)
    /\ Len(batch) >= 2
    /\ ~Accepts(batch[1])
    /\ Accepts(batch[2])

----------------------------------------------------------------------------
(* C5 *)

\* C5 as stated, its "if" half: a load in which at least one batch
\* contributed a successful row is reported successful, also when an error
\* was raised after that batch.
C5_SuccessIfAnyRowLoaded ==
    (pc = "done" /\ upload_stats.successful_rows > 0) => result = "Success"

\* C5 amended: a load is reported successful if and only if nothing was
\* raised while streaming and at least one batch contributed a successful
\* row (or the file had no data row and its empty bulk insert went through);
\* failures recorded in the dead-letter queue do not turn the status to
\* Failed, an error raised while streaming does, whatever succeeded before.
C5_StatusOfLoad ==
    pc = "done" =>
        (result = "Success" <=>
            /\ ~Raised
            /\ \/ upload_stats.successful_rows > 0
               \/ \E i \in 1..Len(trace) :
                      trace[i].ev = "bulk" /\ trace[i].ok /\ trace[i].size = 0)

\* A run reported Failed although rows were loaded and failures recorded
\* before the error was raised.
C5_Witness ==
    /\ pc = "done"
    /\ Raised
    /\ upload_stats.successful_rows > 0
    /\ DOMAIN get_error_stats(dead_letter_queue) # {}
    /\ result = "Failed"

----------------------------------------------------------------------------
(* C6 *)

\* C6: in row mode the transaction of a batch is committed at most once,
\* only after every row of the batch was attempted, and it is committed if
\* and only if a row of the batch was inserted; while rows of the batch
\* are still being attempted nothing of it is committed.
C6_OneCommitAfterTheBatch ==
    args.manual_insert =>
        \A c \in 1..chunk_i :
            LET commits == At("commit", c)
                rows == At("row", c)
                running == c = chunk_i /\ pc = "row_insert"
            IN  /\ Cardinality(commits) <= 1
                /\ \A i \in commits :
                       /\ Cardinality(rows) = Len(BatchOf(c))
                       /\ \A j \in rows : j < i
                /\ running =>
                       /\ commits = {}
                       /\ Range(BatchOf(c)) \cap Range(db.rows) = {}
                /\ ~running =>
                       /\ commits # {} <=> \E j \in rows : trace[j].ok
                       /\ \A j \in rows :
                              trace[j].ok <=> trace[j].row \in Range(db.rows)

\* A batch with a failed row and an inserted row was committed.
C6_Witness ==
    /\ args.manual_insert
    /\ \E c \in 1..chunk_i :
           /\ At("commit", c) # {}
           /\ \E i, j \in At("row", c) : ~trace[i].ok /\ trace[j].ok

----------------------------------------------------------------------------
(* C7 *)

\* C7: with the policy fail and a table that exists before the run, the load
\* ends with a failure result and no batch step runs: nothing is read or
\* inserted, the table, the counters and the dead-letter queue stay as
\* they were.
C7_FailPolicyAbortsBeforeStreaming ==
    (args.if_exists = "fail" /\ db0.exists) =>
        /\ pc \in {"analyze_csv", "infer_schema", "load_data", "returned", "done"}
        /\ trace = <<>>
        /\ chunk_i = 0
        /\ db = db0
        /\ upload_stats.total_rows = 0
        /\ upload_stats.successful_rows = 0
        /\ upload_stats.failed_rows = 0
        /\ dead_letter_queue = DeadLetterQueueInit
        /\ pc \in {"returned", "done"} => ret = FALSE
        /\ pc = "done" => result = "Failed"

\* The run against an existing table with the policy fail is over.
C7_Witness ==
    /\ args.if_exists = "fail"
    /\ db0.exists
    /\ Len(file) > 0
    /\ pc = "done"
    /\ result = "Failed"

----------------------------------------------------------------------------
(* C8 *)

\* C8: whenever load_data has returned, the run's UploadStats is finalized.
C8_StatsFinalizedAtReturn ==
    pc = "returned" => upload_stats.end_time = "set"

----------------------------------------------------------------------------
(* C9 *)

\* The failures recorded so far: failed bulk attempts and failed row attempts.
FailuresRecorded ==
    {i \in 1..Len(trace) : trace[i].ev \in {"bulk", "row"} /\ ~trace[i].ok}

\* C9: as long as no failure was recorded no dead-letter file exists; from
\* the first recorded failure on exactly one file exists, it is the queue's
\* current file, and every failed row of the run is recorded in it.
C9_DeadLetterFileIsLazyAndSingle ==
    IF FailuresRecorded = {}
    THEN /\ dead_letter_queue.files = <<>>
         /\ dead_letter_queue.current_file = 0
    ELSE /\ Len(dead_letter_queue.files) = 1
         /\ dead_letter_queue.current_file = 1
         /\ Len(DeadLetterRowIds) = upload_stats.failed_rows
         /\ Len(DeadLetterRowIds) > 0

\* Failures of two different batches were recorded.
C9_Witness ==
    /\ \E i, j \in FailuresRecorded : trace[i].chunk # trace[j].chunk
    /\ Len(dead_letter_queue.files) = 1

----------------------------------------------------------------------------
(* C10 *)

\* C10: every dead-letter file starts with its header, the original columns
\* followed by error_type, error_message, error_timestamp, and holds it
\* once; every data line after it has its fields in the header's order.
C10_HeaderOnceAndRowsAligned ==
    \A f \in 1..Len(dead_letter_queue.files) :
        LET lines == dead_letter_queue.files[f]
        IN  /\ lines[1].kind = "header"
            /\ lines[1].fields = columns \o ErrorColumns
            /\ \A i \in 2..Len(lines) :
                   /\ lines[i].kind = "row"
                   /\ lines[i].fields = lines[1].fields

----------------------------------------------------------------------------
(* C11 *)

\* The number of dead-letter records written under a label.
RecordsLabelled(l) ==
    LET lines == DeadLetterRows(dead_letter_queue)
    IN  Cardinality({i \in 1..Len(lines) : lines[i].error_type = l})

\* C11: the queue's error counts hold, for every label, exactly the number of
\* dead-letter records written under it, and no entry for a label without
\* records; the mapping handed to the caller starts as these counts, and
\* what the caller writes into it leaves the queue's counts as they were.
C11_ErrorCountsExactAndPrivate ==
    LET counts == dead_letter_queue.error_counts
    IN  /\ DOMAIN counts \subseteq ErrorLabels
        /\ \A l \in ErrorLabels :
               IF RecordsLabelled(l) = 0
               THEN l \notin DOMAIN counts
               ELSE l \in DOMAIN counts /\ counts[l] = RecordsLabelled(l)
        /\ (error_stats.returned /\ ~error_stats.edited)
               => error_stats.counts = counts

\* The caller has overwritten the mapping it got while the queue holds records.
C11_Witness ==
    /\ error_stats.returned
    /\ error_stats.edited
    /\ DOMAIN dead_letter_queue.error_counts # {}
    /\ error_stats.counts # dead_letter_queue.error_counts

----------------------------------------------------------------------------
(* C12 *)

----------------------------------------------------------------------------
(* C13 *)

\* The order in which a load computes what it needs before it streams.
Pipeline == <<"analyze_csv", "infer_schema", "create_table">>

\* C13: the profile, the column types with the CREATE TABLE statement, and
\* the table are each computed once, in this order, whichever entry point
\* starts the load; nothing is read or inserted before the table was
\* ensured, and no step is repeated afterwards.
C13_PipelineOnceInOrder ==
    /\ Len(steps) <= Len(Pipeline)
    /\ steps = SubSeq(Pipeline, 1, Len(steps))
    /\ (trace # <<>> \/ db.rows # db0.rows) => steps = Pipeline
    /\ pc \in {"select_method", "read", "bulk_insert", "row_insert"}
           => steps = Pipeline
    /\ csv_analysis <=> Len(steps) >= 1
    /\ column_types <=> Len(steps) >= 2

\* A load through load_csv_to_sql has written rows and is over.
C13_Witness ==
    /\ pc = "done"
    /\ steps = Pipeline
    /\ Len(db.rows) > Len(db0.rows)

----------------------------------------------------------------------------
(* Vocabulary of the schema properties.                                    *)

Generated == sg.pc = "generated"

Sql == sg.create_table_sql

\* columnNames of the structural profile: df.columns of the sample.
ColumnNames == [i \in 1..Len(sg.df) |-> sg.df[i].name]

KeyKnown == Requested(sg.primary_key) /\ sg.primary_key \in Range(ColumnNames)

KeyUnknown == Requested(sg.primary_key) /\ sg.primary_key \notin Range(ColumnNames)

\* The type and the nullability inferred for the i-th column of the sample.
TypeOf(i) == DictGet(sg.column_types, sg.df[i].name, "None")

NullableOf(i) ==
    DictGet(sg.column_attributes, sg.df[i].name, [nullable |-> TRUE]).nullable

\* The clause at place k is the clause of the i-th column of the sample.
ClauseIsColumn(k, i) ==
    /\ Sql.columns[k].name = _sanitize_name(ColumnNames[i])
    /\ Sql.columns[k].type = TypeOf(i)
    /\ ~Sql.columns[k].auto_increment

\* The clauses marked PRIMARY KEY.
KeyClauses == {k \in 1..Len(Sql.columns) : Sql.columns[k].primary_key}

----------------------------------------------------------------------------
(* C14 *)

\* C14 as stated: whatever primary key and indexes are requested, the i-th
\* column clause is the clause of the i-th column name.
C14_ClausesAlignedWithColumnNames ==
    Generated =>
        /\ Len(Sql.columns) = Len(ColumnNames)
        /\ \A i \in 1..Len(ColumnNames) : ClauseIsColumn(i, i)

\* C14: the column types are recorded in the order of the column names, and
\* the column clauses follow that order: the i-th clause is the clause of the
\* i-th column name when no primary key is requested or the requested one is
\* a known column; when the requested primary key is not a known column the
\* first clause is the added id column and the (i+1)-th clause is the clause
\* of the i-th column name.
C14_ClausesFollowColumnNames ==
    /\ sg.pc \in {"infer_column_types", "generate_create_table_sql",
                  "generated", "insert_statement"}
    /\ [i \in 1..Len(sg.column_types) |-> sg.column_types[i].key]
           = SubSeq(ColumnNames, 1, sg.column_i)
    /\ Generated =>
           LET shift == IF KeyUnknown THEN 1 ELSE 0
           IN  /\ Len(Sql.columns) = Len(ColumnNames) + shift
               /\ \A i \in 1..Len(ColumnNames) : ClauseIsColumn(i + shift, i)
               /\ shift = 1 => Sql.columns[1] = IdClause

\* A definition of two columns with an added id column and an index.
C14_Witness ==
    /\ Generated
    /\ KeyUnknown
    /\ Len(ColumnNames) = 2
    /\ Len(Sql.indexes) = 1

----------------------------------------------------------------------------
(* C15 *)

\* A column of strings, at least one of them not NaN.
Textual(series) ==
    /\ series.dtype \in {"object", "string"}
    /\ series.vals # <<>>
    /\ \A i \in 1..Len(series.vals) : series.vals[i].v.str

\* Every value of the column matches the pattern kind.
AllValuesMatch(series, kind) ==
    \A i \in 1..Len(series.vals) : kind \in series.vals[i].v.matches

\* C15: a textual column none of whose values matches a structured pattern
\* gets the bucket of its longest value: VARCHAR(10) up to 10 characters,
\* VARCHAR(50) up to 50, VARCHAR(100) up to 100, VARCHAR(255) up to 255, TEXT
\* up to 1000, LONGTEXT beyond; 12 characters give VARCHAR(50).
C15_VarcharBucketOfLongestValue ==
    \A i \in 1..sg.column_i :
        (/\ Textual(sg.df[i])
         /\ \A j \in 1..Len(sg.df[i].vals) : sg.df[i].vals[j].v.matches = {})
        => /\ TypeOf(i) = VarcharBucket(MaxLength(sg.df[i].vals))
           /\ MaxLength(sg.df[i].vals) = 12 => TypeOf(i) = "VARCHAR(50)"

----------------------------------------------------------------------------
(* C16 *)

\* The structured kinds in the order of their tests, and their types.
Kinds == <<"date", "time", "email", "phone">>

KindType ==
    ("date" :> "DATE") @@ ("time" :> "TIME") @@ ("email" :> "VARCHAR(100)")
    @@ ("phone" :> "VARCHAR(20)")

\* C16: for a textual column all of whose values are tested (at most
\* SampleSize of them), the type is that of the first kind, in the order
\* date, time, email, phone, that every value matches, a kind matched by
\* only some values being passed over; all values matching the email
\* pattern (and not all a date or time pattern) give VARCHAR(100), all
\* matching the phone pattern (and no earlier one) give VARCHAR(20).
C16_FirstKindMatchedByAll ==
    \A i \in 1..sg.column_i :
        (Textual(sg.df[i]) /\ NonNullCount(sg.df[i].vals) <= SampleSize)
        => \A k \in 1..Len(Kinds) :
               (/\ AllValuesMatch(sg.df[i], Kinds[k])
                /\ \A j \in 1..(k - 1) : ~AllValuesMatch(sg.df[i], Kinds[j]))
               => TypeOf(i) = KindType[Kinds[k]]

----------------------------------------------------------------------------
(* C17 *)

\* C17: a column is marked nullable exactly when the sample holds a NaN in
\* it; in the table definition a clause carries NOT NULL exactly when its
\* column is not nullable or the clause is the primary key (the requested
\* column, or the added id column).
C17_NullableIffAbsentValue ==
    /\ \A i \in 1..sg.column_i : NullableOf(i) <=> sg.df[i].nulls > 0
    /\ Generated =>
           LET shift == Len(Sql.columns) - Len(ColumnNames)
           IN  /\ \A i \in 1..Len(ColumnNames) :
                      Sql.columns[i + shift].not_null
                          <=> (sg.df[i].nulls = 0
                               \/ Sql.columns[i + shift].primary_key)
               /\ \A k \in 1..shift : /\ Sql.columns[k].not_null
                                       /\ Sql.columns[k].primary_key

\* The primary key is a column with a NaN, next to a column without one that
\* is not the key.
C17_Witness ==
    /\ Generated
    /\ \E i, j \in 1..Len(sg.df) :
           /\ sg.df[i].nulls > 0 /\ sg.df[i].name = sg.primary_key
           /\ sg.df[j].nulls = 0 /\ sg.df[j].name # sg.primary_key
           /\ Sql.columns[i].not_null /\ Sql.columns[j].not_null

----------------------------------------------------------------------------
(* C18 *)

\* The names written into the table definition for the table, the columns of
\* the sample and the index columns, each with the name it was made from.
SanitizedNames ==
    {<<sg.table_name, Sql.table>>}
    \cup {<<ColumnNames[i],
            Sql.columns[i + Len(Sql.columns) - Len(ColumnNames)].name>> :
                i \in 1..Len(ColumnNames)}
    \cup {<<Sql.indexes[i].of, Sql.indexes[i].column>> : i \in 1..Len(Sql.indexes)}

NoDoubleUnderscore(name) ==
    \A i \in 1..(Len(name) - 1) : ~(name[i] = "_" /\ name[i + 1] = "_")

\* C18 as stated: every sanitized name holds only characters of
\* [A-Za-z0-9_], no two underscores in a row, and no digit in front.
C18_SanitizedNamesAreAscii ==
    Generated =>
        \A p \in SanitizedNames :
            /\ p[2] = _sanitize_name(p[1])
            /\ \A i \in 1..Len(p[2]) : IsAsciiWordChar(p[2][i])
            /\ NoDoubleUnderscore(p[2])
            /\ p[2] # <<>> => ~IsDigit(p[2][1])

\* C18: every sanitized name holds only word characters (letters and digits
\* of any script, and the underscore), every other character of the name
\* having become an underscore; it holds no two underscores in a row and no
\* digit in front, a name that would start with a digit getting the prefix
\* col_; the table name, every column name and every index column of the
\* table definition are sanitized names.
C18_SanitizedNamesAreWords ==
    Generated =>
        \A p \in SanitizedNames :
            /\ p[2] = _sanitize_name(p[1])
            /\ \A i \in 1..Len(p[2]) : IsWordChar(p[2][i])
            /\ NoDoubleUnderscore(p[2])
            /\ p[2] # <<>> => ~IsDigit(p[2][1])
            /\ (p[1] # <<>> /\ IsDigit(p[1][1]))
                   => SubSeq(p[2], 1, 4) = <<"c", "o", "l", "_">>

\* A column name with a digit in front and two punctuation marks in a row.
C18_Witness ==
    /\ Generated
    /\ ColumnNames = << <<"1", "-", "-">> >>
    /\ Sql.columns[1].name = <<"c", "o", "l", "_", "1", "_">>

----------------------------------------------------------------------------
(* C19 *)

\* C19: generating the definition never fails over the primary key.  A
\* requested key that is no known column adds exactly one clause, in front:
\* an auto-incrementing INT primary key, the only clause marked PRIMARY KEY.
\* A requested key that is a known column marks the clause of that column,
\* and no other, and adds no clause.  Without a requested key no clause is
\* marked and none is added.
C19_PrimaryKeyClause ==
    /\ sg.pc # "raised"
    /\ Generated =>
           /\ KeyUnknown =>
                  /\ Len(Sql.columns) = Len(ColumnNames) + 1
                  /\ KeyClauses = {1}
                  /\ Sql.columns[1].auto_increment
                  /\ Sql.columns[1].type = "INT"
                  /\ \A k \in 2..Len(Sql.columns) : ~Sql.columns[k].auto_increment
           /\ KeyKnown =>
                  /\ Len(Sql.columns) = Len(ColumnNames)
                  /\ KeyClauses = {i \in 1..Len(ColumnNames) :
                                       ColumnNames[i] = sg.primary_key}
                  /\ Cardinality(KeyClauses) = 1
                  /\ \A k \in 1..Len(Sql.columns) : ~Sql.columns[k].auto_increment
           /\ ~Requested(sg.primary_key) =>
                  /\ Len(Sql.columns) = Len(ColumnNames)
                  /\ KeyClauses = {}

\* The key id was requested for a frame whose columns have other names.
C19_Witness ==
    /\ Generated
    /\ sg.primary_key = <<"i", "d">>
    /\ KeyUnknown
    /\ Sql.columns[1] = IdClause

----------------------------------------------------------------------------
(* C20 *)

\* C20: a requested index column has an index clause exactly when it is a
\* known column and not the requested primary key; every index clause is
\* that of a requested column, on its sanitized name; a request that gets
\* no clause raises nothing.
C20_IndexClauseIffKnownAndNotKey ==
    /\ sg.pc # "raised"
    /\ Generated =>
           /\ \A idx \in Range(sg.add_indexes) :
                  (\E i \in 1..Len(Sql.indexes) : Sql.indexes[i].of = idx)
                      <=> (idx \in Range(ColumnNames) /\ idx # sg.primary_key)
           /\ \A i \in 1..Len(Sql.indexes) :
                  /\ Sql.indexes[i].of \in Range(sg.add_indexes)
                  /\ Sql.indexes[i].column = _sanitize_name(Sql.indexes[i].of)

\* An index was requested on the primary key column and got no clause.
C20_Witness ==
    /\ Generated
    /\ KeyKnown
    /\ sg.add_indexes = <<sg.primary_key>>
    /\ Sql.indexes = <<>>

----------------------------------------------------------------------------
(* C21 *)

\* C21: no call of detect_encoding, detect_delimiter or detect_header on an
\* existing file ends with an exception, and every call of detect_delimiter
\* leaves a delimiter: the sniffer's, the fallback's, or the comma.
C21_DetectionNeverRaises ==
    /\ ~an.raised
    /\ an.call = "detect_delimiter" =>
           /\ an.delimiter # "None"
           /\ an.ret_name = an.delimiter

----------------------------------------------------------------------------
(* C22 *)

\* The count of a candidate in the sample.
CountIn(d) == an.env.sample.counts[d]

\* The delimiter is an answer of the fallback to the candidates kept: the
\* comma when none is kept, else a kept candidate of the highest count.
FallbackAnswers(kept) ==
    IF kept = {} THEN an.ret_name = ","
    ELSE /\ an.ret_name \in kept
         /\ \A d \in kept : CountIn(d) <= CountIn(an.ret_name)

\* C22 as stated: after a failed sniff the candidates discarded are exactly
\* those found nowhere or in more than half the sample.
C22_FallbackKeepsUpToHalf ==
    (an.call = "detect_delimiter" /\ ~an.raised /\ an.via = "fallback")
    => FallbackAnswers({d \in Range(Candidates) :
                           CountIn(d) > 0 /\ 2 * CountIn(d) <= an.env.sample.len})

\* C22: after a failed sniff on a sample that was read, the candidates
\* discarded are exactly those found nowhere or in at least half the sample
\* (count * 2 >= length); detection returns and stores the kept candidate of
\* the highest count, the earliest of the list , ; tab | space among equals,
\* and the comma when none is kept.
C22_FallbackKeepsBelowHalf ==
    (an.call = "detect_delimiter" /\ ~an.raised /\ an.via = "fallback")
    => LET kept == {d \in Range(Candidates) :
                       CountIn(d) > 0 /\ 2 * CountIn(d) < an.env.sample.len}
       IN  /\ FallbackAnswers(kept)
           /\ an.delimiter = an.ret_name
           /\ \A i, j \in 1..Len(Candidates) :
                  (/\ i < j
                   /\ Candidates[i] \in kept
                   /\ CountIn(Candidates[i]) = CountIn(Candidates[j]))
                  => an.ret_name # Candidates[j]

\* The fallback chose between two kept candidates of different counts and
\* passed over one found in half the sample or more.
C22_Witness ==
    /\ an.call = "detect_delimiter"
    /\ an.via = "fallback"
    /\ an.env.sample.len = 5
    /\ CountIn(";") = 2
    /\ CountIn(",") = 1
    /\ an.ret_name = ";"

----------------------------------------------------------------------------
(* C23 *)

\* Header sniffing raised in the last call of detect_header.
HeaderSniffingRaised ==
    an.encoding \notin an.env.opens \/ an.env.has_header = "raise"

\* C23: a call of detect_header in which opening the file or the sniffer
\* raises returns (True, 0), never "no header"; after every call that
\* returns, the stored has_header and header_row are the returned pair.
C23_HeaderDefaultsToFirstRow ==
    (an.call = "detect_header" /\ ~an.raised)
    => /\ an.has_header = an.ret_header.has_header
       /\ an.header_row = an.ret_header.header_row
       /\ HeaderSniffingRaised =>
              /\ an.ret_header.has_header
              /\ an.ret_header.header_row = <<0>>
       /\ an.ret_header.has_header <=> an.ret_header.header_row = <<0>>

\* detect_header returned after its sniffer raised.
C23_Witness ==
    /\ an.call = "detect_header"
    /\ ~an.raised
    /\ an.env.has_header = "raise"
    /\ an.via = "default"

----------------------------------------------------------------------------
(* C24 *)

\* C24: after every call of record_success or record_failure, with any
\* non-negative number of rows, with or without an error, total_rows is
\* successful_rows + failed_rows, and none of the three counters is lower
\* than it was before the call.
C24_CountersAddUpAndGrow ==
    [][/\ upload_stats'.total_rows
             = upload_stats'.successful_rows + upload_stats'.failed_rows
       /\ upload_stats'.total_rows >= upload_stats.total_rows
       /\ upload_stats'.successful_rows >= upload_stats.successful_rows
       /\ upload_stats'.failed_rows >= upload_stats.failed_rows]_vars

\* Successes and failures were recorded, one failure with an error.
C24_Witness ==
    /\ upload_stats.successful_rows = 2
    /\ upload_stats.failed_rows = 3
    /\ Len(upload_stats.errors) = 1

----------------------------------------------------------------------------
(* C25 *)

\* The sum of the error counts of the dead-letter queue.
ErrorCountSum ==
    LET counts == dead_letter_queue.error_counts
    IN  SumSeq([i \in 1..2 |->
                  LET l == <<"bulk_insert_error", "row_insert_error">>[i]
                  IN  IF l \in DOMAIN counts THEN counts[l] ELSE 0])

\* C25: in every state of a load (hence after every bulk insert and every
\* row insert, succeeded or failed, and after an exception of the load),
\* failed_rows is the number of data lines of the dead-letter file and the
\* sum of the error counts of the queue.
C25_FailedRowsAreDeadLettered ==
    /\ DOMAIN dead_letter_queue.error_counts \subseteq ErrorLabels
    /\ upload_stats.failed_rows = Len(DeadLetterRows(dead_letter_queue))
    /\ upload_stats.failed_rows = ErrorCountSum

\* A load in chunks is over after a failure in its first chunk and one in a
\* later chunk.
C25_Witness ==
    /\ pc = "done"
    /\ upload_stats.failed_rows >= 2
    /\ \E i, j \in FailuresRecorded : trace[i].chunk = 1 /\ trace[j].chunk = 2

----------------------------------------------------------------------------
(* C26 *)

\* C26: the INSERT statement of row mode names the table by the identifier
\* of the CREATE TABLE statement of the same load, and every column it names
\* is, at its place, the identifier of a column clause of that statement.
C26_InsertUsesCreatedIdentifiers ==
    sg.pc = "insert_statement" =>
        /\ sg.insert_stmt.table = Sql.table
        /\ Len(sg.insert_stmt.columns) = Len(ColumnNames)
        /\ \A i \in 1..Len(ColumnNames) :
               sg.insert_stmt.columns[i]
                   = Sql.columns[i + Len(Sql.columns) - Len(ColumnNames)].name

----------------------------------------------------------------------------
(* Vocabulary of the chunked loads of db_connector and main *)

\* The file rows the table rows were written from, in table order.
RowNumbers(rows) == [j \in 1..Len(rows) |-> rows[j].row]

\* The database takes every chunk of the file, over an open connection, and
\* the first chunk is not refused by the policy 'fail'.
EveryChunkInserted ==
    /\ cx.env.file_exists
    /\ cx.opened
    /\ \A k \in 1..Len(cx.env.outcomes) : cx.env.outcomes[k] = "ok"
    /\ ~(cx.env.table0.exists /\ cx.env.if_exists = "fail")

\* load_csv_to_table has returned.
LctReturned == cx.lct_ret.success # "None"

\* main's manual path has returned.
ManualReturned ==
    /\ cx.env.entry = "load_csv_to_db"
    /\ cx.env.chunk_method = "manual"
    /\ ~cx.env.dry_run
    /\ cx.pc = "done"

\* The rows the table keeps from before the load under the policy.
KeptRows ==
    IF cx.env.table0.exists /\ cx.env.if_exists = "append"
    THEN cx.env.table0.rows ELSE <<>>

----------------------------------------------------------------------------
(* C27 *)

\* C27: the policy is applied to the first chunk only and later chunks are
\* appended: when load_csv_to_table or main's manual path has returned from
\* a load in which every chunk was inserted, the table holds the rows the
\* policy keeps followed by the rows of all chunks in file order (under
\* 'replace', the rows of all chunks and nothing else), the total counted
\* is the number of rows of the file, and the load reports success.
C27_PolicyOnFirstChunkOnly ==
    (LctReturned \/ ManualReturned) /\ EveryChunkInserted =>
        /\ RowNumbers(cx.table.rows)
               = RowNumbers(KeptRows) \o Indexes(1, cx.env.nrows)
        /\ cx.total_rows = cx.env.nrows
        /\ LctReturned => cx.lct_ret = [success |-> "True",
                                        rows |-> cx.env.nrows]
        /\ ManualReturned => cx.ret = "True"

\* A load of several chunks under 'replace' into a table that existed has
\* returned with every chunk inserted.
C27_Witness ==
    /\ LctReturned
    /\ EveryChunkInserted
    /\ cx.env.if_exists = "replace"
    /\ cx.env.table0.exists
    /\ Len(cx.env.outcomes) >= 2
    /\ RowNumbers(cx.table.rows) = Indexes(1, cx.env.nrows)

----------------------------------------------------------------------------
(* C28 *)

\* The table rows written by the load.
WrittenRows == SelectSeq(cx.table.rows, LAMBDA r : r.row > 0)

\* C28: when the id column is synthesised (add_id_column on, no id column
\* in the file), the ids of the rows written by one load are pairwise
\* distinct.
C28_SynthesisedIdsDistinct ==
    cx.env.add_id /\ ~cx.env.id_in_file =>
        \A j, k \in 1..Len(WrittenRows) :
            j # k => WrittenRows[j].id # WrittenRows[k].id

----------------------------------------------------------------------------
(* C29 *)

\* The insert of the k-th chunk (k = 1, 2, ...) goes through: the chunk is
\* read, there is a connection, the policy does not refuse the table and
\* the database takes the rows.
ChunkGoesThrough(k) ==
    /\ cx.env.outcomes[k] = "ok"
    /\ cx.opened
    /\ ~(k = 1 /\ cx.env.table0.exists /\ cx.env.if_exists = "fail")

\* The number of chunks before the first whose insert does not go through.
ChunksBeforeFailure ==
    LET failing == {k \in 1..Len(cx.env.outcomes) : ~ChunkGoesThrough(k)}
    IN  IF failing = {} THEN Len(cx.env.outcomes)
        ELSE (CHOOSE k \in failing : \A m \in failing : k <= m) - 1

\* C29: load_csv_to_table of an existing file stops at the first chunk whose
\* insert fails: it has passed exactly the chunks before it, the rows the
\* load has written are the rows of those chunks in file order, the count
\* returned is their number, and the flag returned is True exactly when no
\* chunk failed.
C29_StopsAtFirstFailingChunk ==
    LctReturned /\ cx.env.file_exists =>
        LET r == Min(ChunksBeforeFailure * cx.env.chunk_size, cx.env.nrows)
        IN  /\ cx.i = ChunksBeforeFailure
            /\ RowNumbers(WrittenRows) = Indexes(1, r)
            /\ cx.lct_ret.rows = r
            /\ cx.lct_ret.success \in {"True", "False"}
            /\ cx.lct_ret.success = "True"
                   <=> ChunksBeforeFailure = Len(cx.env.outcomes)

\* The database rejected a chunk after one that was inserted and before one
\* that was never read into the table.
C29_Witness ==
    /\ LctReturned
    /\ cx.env.file_exists
    /\ cx.lct_ret.success = "False"
    /\ cx.lct_ret.rows > 0
    /\ cx.i + 1 < Len(cx.env.outcomes)
    /\ cx.env.outcomes[cx.i + 1] = "fail"
    /\ Len(WrittenRows) = cx.lct_ret.rows

----------------------------------------------------------------------------
(* C30 *)

\* C30: a run of load_csv_to_db that has returned after the connection was
\* opened has closed it.
C30_ReturnsDisconnected ==
    cx.env.entry = "load_csv_to_db" /\ cx.pc = "done" /\ cx.opened =>
        ~cx.connected

============================================================================
